---- MODULE Spec2Model ----
(***************************************************************************)
(* Model of wikipedia_to_markdown.py: the retrying fetch (http_get), the   *)
(* node renderer (clean_text), the section walk of                         *)
(* build_markdown_from_article, the PDF table merge (extract_pdf_tables)   *)
(* and the run of main.                                                    *)
(***************************************************************************)
EXTENDS Integers, Sequences, FiniteSets, TLC

\* ------------------------------------------------------------------------
\* Bounds of the model
\* elements below the content container in SpecWalk
MaxNodes == 3
\* elements below the content container in a whole run (Spec)
MaxMainNodes == 2

\* ------------------------------------------------------------------------
\* The parsed document: the elements below div#mw-content-text in document
\* order (preorder).  Element i has a tag, a parent (0 is the content div)
\* and a leading text child: for a heading its text, for the other tags
\* "t" when the element starts with a text node and "" when it has none.
\* "ul" stands for ul and ol, "dd" for dt and dd, "td" for the tr/td chain
\* of a table; the documents hold no inline elements (b, i, a, img, sup).

HeadingTags == {"h1", "h2"}

HeadingTexts == {"Intro", "References", "External Links", ""}

WalkedTags == HeadingTags \cup {"p", "ul", "dl", "table"}

ChildTags(tag) ==
    CASE tag = "root"  -> HeadingTags \cup {"p", "ul", "dl", "table"}
      [] tag = "p"     -> {"table"}
      [] tag = "ul"    -> {"li"}
      [] tag = "li"    -> {"ul", "p", "table"}
      [] tag = "dl"    -> {"dd"}
      [] tag = "dd"    -> {"p", "ul", "table"}
      [] tag = "table" -> {"td"}
      [] tag = "td"    -> HeadingTags \cup {"p", "ul", "dl", "table"}
      [] OTHER         -> {}

TextChoices(tag) ==
    IF tag \in HeadingTags THEN HeadingTexts
    ELSE IF tag \in {"p", "li", "dd", "td"} THEN {"", "t"}
    ELSE {""}

TagOf(doc, i) == IF i = 0 THEN "root" ELSE doc[i].tag

RECURSIVE AncestorsOrSelf(_, _)
AncestorsOrSelf(doc, i) ==
    IF i = 0 THEN {0} ELSE {i} \cup AncestorsOrSelf(doc, doc[i].parent)

\* the elements a next element in document order can be a child of
OpenElements(doc) == AncestorsOrSelf(doc, Len(doc))

AllTags == HeadingTags \cup {"p", "ul", "li", "dl", "dd", "table", "td"}

\* the documents that have one more element than doc, with a tag of tags
\* and, for a heading, a text of texts
Extensions(doc, tags, texts) ==
    { Append(doc, [tag |-> t, parent |-> p, txt |-> x]) :
        <<p, t, x>> \in
          { <<p, t, x>> \in OpenElements(doc) \X tags \X (texts \cup {"", "t"}) :
              /\ t \in ChildTags(TagOf(doc, p))
              /\ x \in TextChoices(t)
              /\ t \in HeadingTags => x \in texts } }

RECURSIVE DocsOfLen(_, _, _)
DocsOfLen(n, tags, texts) ==
    IF n = 0 THEN { << >> }
    ELSE UNION { Extensions(d, tags, texts) : d \in DocsOfLen(n - 1, tags, texts) }

Docs(n, tags, texts) == UNION { DocsOfLen(k, tags, texts) : k \in 0..n }

\* the documents of the walk alone
WalkDocs == Docs(MaxNodes, AllTags, HeadingTexts)

\* the documents of a whole run: headings, paragraphs and tables
MainDocs == Docs(MaxMainNodes, {"h2", "p", "table"}, {"Intro", "External Links"})

\* ------------------------------------------------------------------------
\* clean_text.  A rendered text is a sequence of tokens: the text node of
\* element i is the token i (text nodes are opaque, non-blank strings), and
\* the strings clean_text inserts are the tokens below.
NL == 0
BULLET == 0 - 1
COMMA == 0 - 2

RECURSIVE LStrip(_)
LStrip(s) == IF s # << >> /\ Head(s) = NL THEN LStrip(Tail(s)) ELSE s

RECURSIVE RStrip(_)
RStrip(s) ==
    IF s # << >> /\ s[Len(s)] = NL THEN RStrip(SubSeq(s, 1, Len(s) - 1)) ELSE s

\* str.strip()
Strip(s) == RStrip(LStrip(s))

\* element.children restricted to elements, in document order
RECURSIVE ChildrenUpTo(_, _, _)
ChildrenUpTo(doc, el, i) ==
    IF i = 0 THEN << >>
    ELSE IF doc[i].parent = el THEN Append(ChildrenUpTo(doc, el, i - 1), i)
    ELSE ChildrenUpTo(doc, el, i - 1)

Children(doc, el) == ChildrenUpTo(doc, el, Len(doc))

\* the NavigableString child of an element
OwnText(doc, el) ==
    IF el # 0 /\ doc[el].txt # "" THEN << el >> ELSE << >>

RECURSIVE JoinItems(_, _)
JoinItems(items, sep) ==
    IF items = << >> THEN << >>
    ELSE IF Len(items) = 1 THEN items[1]
    ELSE items[1] \o << sep >> \o JoinItems(Tail(items), sep)

RECURSIVE BulletLines(_)
BulletLines(items) ==
    IF items = << >> THEN << >>
    ELSE << BULLET >> \o items[1] \o << NL >> \o BulletLines(Tail(items))

RECURSIVE clean_text(_, _, _)
RECURSIVE RenderChildren(_, _, _)
RECURSIVE ListItems(_, _, _)

\* lines 93-96: the trimmed, non-empty texts of the direct li children
ListItems(doc, kids, inside_table) ==
    IF kids = << >> THEN << >>
    ELSE LET item_text == Strip(clean_text(doc, Head(kids), inside_table))
             rest == ListItems(doc, Tail(kids), inside_table)
         IN IF doc[Head(kids)].tag = "li" /\ item_text # << >>
            THEN << item_text >> \o rest ELSE rest

\* lines 80-117, one child element
RenderChild(doc, child, inside_table) ==
    IF doc[child].tag \in {"ul", "ol"}
    THEN LET items == ListItems(doc, Children(doc, child), inside_table)
         IN IF inside_table THEN JoinItems(items, COMMA) ELSE BulletLines(items)
    ELSE IF doc[child].tag \in {"dl", "dt", "dd"}
    THEN LET inner == Strip(clean_text(doc, child, inside_table))
         IN IF inner # << >> THEN inner \o << NL >> ELSE << >>
    ELSE clean_text(doc, child, inside_table)

RenderChildren(doc, kids, inside_table) ==
    IF kids = << >> THEN << >>
    ELSE RenderChild(doc, Head(kids), inside_table)
           \o RenderChildren(doc, Tail(kids), inside_table)

clean_text(doc, el, inside_table) ==
    OwnText(doc, el) \o RenderChildren(doc, Children(doc, el), inside_table)

\* element.get_text() of a heading
get_text(doc, el) == doc[el].txt

\* str.strip().lower() on the heading texts and the stop sections
Lower(s) ==
    CASE s = "Intro"          -> "intro"
      [] s = "References"     -> "references"
      [] s = "External Links" -> "external links"
      [] s = "External links" -> "external links"
      [] OTHER                -> s

convert_heading(tag_name) == IF tag_name = "h1" THEN 1 ELSE 2

\* lines 233-235
StopSet(stop) == {"references", "notes", "bibliography"} \cup { Lower(s) : s \in stop }

\* content_div.find_all([...], recursive=True): the walked elements in
\* document order
RECURSIVE FindAllUpTo(_, _)
FindAllUpTo(doc, i) ==
    IF i = 0 THEN << >>
    ELSE IF doc[i].tag \in WalkedTags THEN Append(FindAllUpTo(doc, i - 1), i)
    ELSE FindAllUpTo(doc, i - 1)

FindAll(doc) == FindAllUpTo(doc, Len(doc))

\* ------------------------------------------------------------------------
\* State

VARIABLES
    article_url,        \* main: args.url
    stop_sections,      \* main: args.stop
    include_pdf_tables, \* main: not args.no_pdf
    has_pdfplumber,     \* whether the optional import at lines 17-20 succeeded
    h_pc,               \* http_get: "loop", "returned" or "raised"
    h_max,              \* http_get: max_retries
    attempt,            \* http_get: the loop variable
    last_exc,           \* http_get: last_exc
    nreq,               \* number of requests.get calls of this http_get call
    outcome,            \* how the latest requests.get call ended
    sleeps,             \* the delays passed to time.sleep, in order
    pc,                 \* position of the run in main / build_markdown_from_article
    page_title,         \* build_markdown_from_article: page_title
    markdown_lines,     \* build_markdown_from_article: markdown_lines
    pdf_tables_md,      \* build_markdown_from_article: pdf_tables_md
    content,            \* the elements below content_div
    idx,                \* position of the walk in the find_all result
    ref_items,          \* the li children of ol.references
    tmp_file,           \* the temporary PDF file: "none", "exists", "removed"
    pdf,                \* extract_pdf_tables: pdf.pages
    page_i,             \* extract_pdf_tables: position of the page loop
    page_tables,        \* extract_pdf_tables: the tables of the page not yet converted
    pdf_tables,         \* extract_pdf_tables: pdf_tables
    out_file,           \* the output file: "absent" or the text written
    err                 \* the exception the run ended with, "" when none

inputVars == << article_url, stop_sections, include_pdf_tables, has_pdfplumber >>
httpVars == << h_pc, h_max, attempt, last_exc, nreq, outcome, sleeps >>
walkVars == << content, idx >>
pdfVars == << tmp_file, pdf, page_i, page_tables, pdf_tables >>
buildVars == << page_title, markdown_lines, pdf_tables_md, ref_items >>
mainVars == << out_file, err >>

vars == << article_url, stop_sections, include_pdf_tables, has_pdfplumber,
           h_pc, h_max, attempt, last_exc, nreq, outcome, sleeps,
           pc, page_title, markdown_lines, pdf_tables_md, content, idx, ref_items,
           tmp_file, pdf, page_i, page_tables, pdf_tables, out_file, err >>

\* one entry of markdown_lines
Line(type, n, src, text, s, url, md) ==
    [type |-> type, n |-> n, src |-> src, text |-> text, s |-> s, url |-> url, md |-> md]

\* ------------------------------------------------------------------------
\* The section walk, lines 229-255

Elements == FindAll(content)

\* heading_text without .lower()
heading_text_raw(doc, el) == get_text(doc, el)

\* line 242
heading_text(doc, el) == Lower(get_text(doc, el))

\* line 243
IsStopHeading(doc, el, stop) == heading_text(doc, el) \in StopSet(stop)

\* lines 245-248
HeadingLines(doc, el) ==
    LET heading_clean == Strip(clean_text(doc, el, FALSE))
    IN IF heading_clean # << >>
       THEN << Line("heading", convert_heading(doc[el].tag), el, heading_clean, "", "", << >>) >>
       ELSE << >>

\* lines 250-252
BlockLines(doc, el) ==
    LET text == Strip(clean_text(doc, el, FALSE))
    IN IF text # << >> THEN << Line("block", 0, el, text, "", "", << >>) >> ELSE << >>

\* lines 229-231: the document has no div#mw-content-text
ContentMissing ==
    /\ pc = "content"
    /\ pc' = "error"
    /\ err' = "RuntimeError"
    /\ UNCHANGED << inputVars, httpVars, walkVars, pdfVars, buildVars, out_file >>

\* lines 229-240: content_div found, find_all evaluated
FindContent(docs) ==
    /\ pc = "content"
    /\ \E d \in docs : content' = d
    /\ idx' = 1
    /\ pc' = "walk"
    /\ UNCHANGED << inputVars, httpVars, pdfVars, buildVars, mainVars >>

\* lines 241-244: a stop heading ends the walk
WalkStop ==
    /\ pc = "walk" /\ idx <= Len(Elements)
    /\ content[Elements[idx]].tag \in HeadingTags
    /\ IsStopHeading(content, Elements[idx], stop_sections)
    /\ pc' = "refs"
    /\ UNCHANGED << inputVars, httpVars, walkVars, pdfVars, buildVars, mainVars >>

\* lines 241-248: any other heading
WalkHeading ==
    /\ pc = "walk" /\ idx <= Len(Elements)
    /\ content[Elements[idx]].tag \in HeadingTags
    /\ ~IsStopHeading(content, Elements[idx], stop_sections)
    /\ markdown_lines' = markdown_lines \o HeadingLines(content, Elements[idx])
    /\ idx' = idx + 1
    /\ UNCHANGED << inputVars, httpVars, content, pdfVars, pc,
                    page_title, pdf_tables_md, ref_items, mainVars >>

\* lines 249-252: paragraph, list, definition list
WalkBlock ==
    /\ pc = "walk" /\ idx <= Len(Elements)
    /\ content[Elements[idx]].tag \in {"p", "ul", "ol", "dl"}
    /\ markdown_lines' = markdown_lines \o BlockLines(content, Elements[idx])
    /\ idx' = idx + 1
    /\ UNCHANGED << inputVars, httpVars, content, pdfVars, pc,
                    page_title, pdf_tables_md, ref_items, mainVars >>

\* lines 253-255: a table element is passed over
WalkTable ==
    /\ pc = "walk" /\ idx <= Len(Elements)
    /\ content[Elements[idx]].tag = "table"
    /\ idx' = idx + 1
    /\ UNCHANGED << inputVars, httpVars, content, pdfVars, pc, buildVars, mainVars >>

\* line 237: the find_all result is exhausted
WalkEnd ==
    /\ pc = "walk" /\ idx > Len(Elements)
    /\ pc' = "refs"
    /\ UNCHANGED << inputVars, httpVars, walkVars, pdfVars, buildVars, mainVars >>

Walk == WalkStop \/ WalkHeading \/ WalkBlock \/ WalkTable \/ WalkEnd

\* ------------------------------------------------------------------------
\* http_get, lines 31-60

\* bound on the max_retries argument in SpecHttp
MaxRetriesArg == 4

\* max_retries of the two calls of the program (line 33 default, line 152)
DefaultMaxRetries == 4

RETRY_STATUS == {429, 500, 502, 503, 504}

\* requests.get raised a RequestException (no response)
ConnError == 0

\* how one requests.get call can end: a status code, or ConnError
Outcomes == {200, 404, 501} \cup RETRY_STATUS \cup {ConnError}

\* resp.raise_for_status() raises HTTPError
RaisesForStatus(status) == status >= 400 /\ status < 600

\* InRange with one iteration too many
InRange_extra(a, max_retries) == a >= 0 /\ a < max_retries + 2

\* range(max_retries + 1)
InRange(a, max_retries) == a >= 0 /\ a < max_retries + 1

Min(a, b) == IF a < b THEN a ELSE b

\* line 47
RetryDelay(a) == 2 ^ a

\* line 55
ExceptDelay(a) == Min(2 ^ a, 8)

\* the state of a call of http_get that has just started
HttpStart(max_retries) ==
    /\ h_pc' = "loop"
    /\ h_max' = max_retries
    /\ attempt' = 0
    /\ last_exc' = "None"
    /\ nreq' = 0
    /\ outcome' = 200
    /\ sleeps' = << >>

\* no call of http_get is active
HttpIdle ==
    /\ h_pc' = "idle"
    /\ h_max' = 0
    /\ attempt' = 0
    /\ last_exc' = "None"
    /\ nreq' = 0
    /\ outcome' = 200
    /\ sleeps' = << >>

\* what lines 58-60 raise
Raised == IF last_exc # "None" THEN last_exc ELSE "RuntimeError"

notHttp == << inputVars, pc, walkVars, pdfVars, buildVars, mainVars >>

\* lines 44-48: the response has a retry status
HttpRetryStatus ==
    /\ h_pc = "loop" /\ InRange(attempt, h_max)
    /\ \E o \in Outcomes :
         /\ o # ConnError /\ o \in RETRY_STATUS
         /\ outcome' = o
    /\ nreq' = nreq + 1
    /\ sleeps' = Append(sleeps, RetryDelay(attempt))
    /\ attempt' = attempt + 1
    /\ UNCHANGED << h_pc, h_max, last_exc, notHttp >>

\* lines 49-51: the response is returned
HttpOk ==
    /\ h_pc = "loop" /\ InRange(attempt, h_max)
    /\ \E o \in Outcomes :
         /\ o # ConnError /\ o \notin RETRY_STATUS /\ ~RaisesForStatus(o)
         /\ outcome' = o
    /\ nreq' = nreq + 1
    /\ h_pc' = "returned"
    /\ UNCHANGED << h_max, attempt, last_exc, sleeps, notHttp >>

\* lines 50, 52-56: raise_for_status raises HTTPError, a RequestException
HttpStatusError ==
    /\ h_pc = "loop" /\ InRange(attempt, h_max)
    /\ \E o \in Outcomes :
         /\ o # ConnError /\ o \notin RETRY_STATUS /\ RaisesForStatus(o)
         /\ outcome' = o
    /\ nreq' = nreq + 1
    /\ last_exc' = "HTTPError"
    /\ sleeps' = Append(sleeps, ExceptDelay(attempt))
    /\ attempt' = attempt + 1
    /\ UNCHANGED << h_pc, h_max, notHttp >>

\* lines 44, 52-56: requests.get raises a RequestException
HttpConnError ==
    /\ h_pc = "loop" /\ InRange(attempt, h_max)
    /\ outcome' = ConnError
    /\ nreq' = nreq + 1
    /\ last_exc' = "ConnectionError"
    /\ sleeps' = Append(sleeps, ExceptDelay(attempt))
    /\ attempt' = attempt + 1
    /\ UNCHANGED << h_pc, h_max, notHttp >>

\* lines 57-60: the loop is exhausted
HttpExhausted ==
    /\ h_pc = "loop" /\ ~InRange(attempt, h_max)
    /\ h_pc' = "raised"
    /\ UNCHANGED << h_max, attempt, last_exc, nreq, outcome, sleeps, notHttp >>

HttpGet == HttpRetryStatus \/ HttpOk \/ HttpStatusError \/ HttpConnError \/ HttpExhausted

\* ------------------------------------------------------------------------
\* The PDF table merge, lines 159-194

\* pages of a PDF in SpecPdf
MaxPages == 2
\* tables of one page in SpecPdf
MaxTablesPerPage == 2
\* pages in a whole run (Spec); each has at most one table there
MaxMainPages == 2

\* A raw table is a sequence of rows; a row is None or a sequence of cells;
\* a cell is a string, "None" for None, "#5" for a value that is not a string.
NoneRow == [none |-> TRUE, cells |-> << >>]
Row(cells) == [none |-> FALSE, cells |-> cells]

TableInputs ==
    { << >>,
      << NoneRow >>,
      << Row(<< "a" >>) >>,
      << Row(<< "a", "None" >>), NoneRow, Row(<< " b " >>) >>,
      << Row(<< "a" >>), Row(<< "#5" >>) >> }

RECURSIVE SeqsUpTo(_, _)
SeqsUpTo(S, n) ==
    IF n = 0 THEN { << >> }
    ELSE LET shorter == SeqsUpTo(S, n - 1)
         IN shorter \cup { Append(q, x) : q \in shorter, x \in S }

\* what page.extract_tables() does on a page: it raises, or yields tables
PageInputs(maxTables) ==
    { [fails |-> TRUE, tables |-> << >>] }
      \cup { [fails |-> FALSE, tables |-> t] : t \in SeqsUpTo(TableInputs, maxTables) }

PdfInputs(maxPages, maxTables) == SeqsUpTo(PageInputs(maxTables), maxPages)

\* the PDFs of extract_pdf_tables alone and of a whole run
MergePdfs == PdfInputs(MaxPages, MaxTablesPerPage)
MainPdfs == PdfInputs(MaxMainPages, 1)

\* line 165: (cell if cell is not None else "").strip()
StripCell(cell) ==
    CASE cell = "None" -> ""
      [] cell = " b "  -> "b"
      [] OTHER         -> cell

\* line 165 raises AttributeError on a cell that has no strip()
RowRaises(row) == ~row.none /\ \E i \in DOMAIN row.cells : row.cells[i] = "#5"

\* lines 162-167: processed_rows
RECURSIVE ProcessedRows(_)
ProcessedRows(table) ==
    IF table = << >> THEN << >>
    ELSE IF Head(table).none THEN ProcessedRows(Tail(table))
    ELSE << [i \in DOMAIN Head(table).cells |-> StripCell(Head(table).cells[i])] >>
           \o ProcessedRows(Tail(table))

RECURSIVE MaxCols(_)
MaxCols(rows) ==
    IF rows = << >> THEN 0
    ELSE LET m == MaxCols(Tail(rows))
         IN IF Len(Head(rows)) > m THEN Len(Head(rows)) ELSE m

Pad(row, n) == [i \in 1..n |-> IF i <= Len(row) THEN row[i] ELSE ""]

\* lines 159-178: the lines of the Markdown table, << >> for the empty string
convert_pdf_table_to_markdown(table) ==
    LET processed_rows == ProcessedRows(table)
        max_cols == MaxCols(processed_rows)
        padded == [i \in DOMAIN processed_rows |-> Pad(processed_rows[i], max_cols)]
    IN IF processed_rows = << >> THEN << >>
       ELSE << padded[1], [i \in 1..max_cols |-> "---"] >> \o Tail(padded)

ConvertRaises(table) == \E i \in DOMAIN table : RowRaises(table[i])

PdfIdle ==
    /\ pdf' = << >>
    /\ page_i' = 0
    /\ page_tables' = << >>
    /\ pdf_tables' = << >>

notPdf == << inputVars, httpVars, walkVars, page_title, markdown_lines, ref_items, mainVars >>

\* lines 181-182: pdfplumber was not imported
PdfNoPlumber ==
    /\ pc = "pdf_open" /\ ~has_pdfplumber
    /\ pdf_tables_md' = << >>
    /\ pc' = "pdf_remove"
    /\ UNCHANGED << tmp_file, pdf, page_i, page_tables, pdf_tables, notPdf >>

\* PdfOpenFail without the handler at line 225: the exception ends the run
PdfOpenFail_uncaught ==
    /\ pc = "pdf_open" /\ has_pdfplumber
    /\ pc' = "error"
    /\ err' = "PDFSyntaxError"
    /\ UNCHANGED << tmp_file, pdf, page_i, page_tables, pdf_tables, pdf_tables_md,
                    inputVars, httpVars, walkVars, page_title, markdown_lines,
                    ref_items, out_file >>

\* line 184 raises: the exception leaves extract_pdf_tables, skips lines
\* 220-224 and is caught at line 225
PdfOpenFail ==
    /\ pc = "pdf_open" /\ has_pdfplumber
    /\ pc' = "content"
    /\ UNCHANGED << tmp_file, pdf, page_i, page_tables, pdf_tables, pdf_tables_md, notPdf >>

\* lines 183-185
PdfOpen(pdfs) ==
    /\ pc = "pdf_open" /\ has_pdfplumber
    /\ \E f \in pdfs : pdf' = f
    /\ page_i' = 1
    /\ page_tables' = << >>
    /\ pdf_tables' = << >>
    /\ pc' = "pdf_page"
    /\ UNCHANGED << tmp_file, pdf_tables_md, notPdf >>

\* lines 187, 191-193: page.extract_tables() raises
PageExtractFail ==
    /\ pc = "pdf_page" /\ page_i <= Len(pdf)
    /\ pdf[page_i].fails
    /\ page_i' = page_i + 1
    /\ UNCHANGED << pc, tmp_file, pdf, page_tables, pdf_tables, pdf_tables_md, notPdf >>

\* line 187: page.extract_tables() returns the tables of the page
PageExtract ==
    /\ pc = "pdf_page" /\ page_i <= Len(pdf)
    /\ ~pdf[page_i].fails
    /\ page_tables' = pdf[page_i].tables
    /\ pc' = "pdf_table"
    /\ UNCHANGED << tmp_file, pdf, page_i, pdf_tables, pdf_tables_md, notPdf >>

\* where the loops go on after a table of the page raised (lines 191-193):
\* the rest of the page is left, the next page is taken
AfterTableFailure ==
    /\ page_tables' = << >>
    /\ page_i' = page_i + 1
    /\ pc' = "pdf_page"

\* lines 188-190
TableConvert ==
    /\ pc = "pdf_table" /\ page_tables # << >>
    /\ ~ConvertRaises(Head(page_tables))
    /\ LET md == convert_pdf_table_to_markdown(Head(page_tables))
       IN pdf_tables' = IF md # << >> THEN Append(pdf_tables, md) ELSE pdf_tables
    /\ page_tables' = Tail(page_tables)
    /\ UNCHANGED << pc, tmp_file, pdf, page_i, pdf_tables_md, notPdf >>

\* lines 188, 191-193: convert_pdf_table_to_markdown raises
TableConvertFail ==
    /\ pc = "pdf_table" /\ page_tables # << >>
    /\ ConvertRaises(Head(page_tables))
    /\ AfterTableFailure
    /\ UNCHANGED << tmp_file, pdf, pdf_tables, pdf_tables_md, notPdf >>

\* line 187: the tables of the page are exhausted
PageEnd ==
    /\ pc = "pdf_table" /\ page_tables = << >>
    /\ page_i' = page_i + 1
    /\ pc' = "pdf_page"
    /\ UNCHANGED << tmp_file, pdf, page_tables, pdf_tables, pdf_tables_md, notPdf >>

\* lines 185, 194, 219: the pages are exhausted, the list is returned
PdfReturn ==
    /\ pc = "pdf_page" /\ page_i > Len(pdf)
    /\ pdf_tables_md' = pdf_tables
    /\ pc' = "pdf_remove"
    /\ UNCHANGED << tmp_file, pdf, page_i, page_tables, pdf_tables, notPdf >>

ExtractPdfTables(pdfs) ==
    \/ PdfNoPlumber \/ PdfOpenFail \/ PdfOpen(pdfs)
    \/ PageExtractFail \/ PageExtract
    \/ TableConvert \/ TableConvertFail \/ PageEnd \/ PdfReturn

\* ------------------------------------------------------------------------
\* build_markdown_from_article and main, lines 199-271 and 295-314

\* items of the reference list
MaxRefs == 2

UrlInputs == {"https://en.wikipedia.org/wiki/Test_Page", "https://example.org/Test_Page"}

\* re.search(r'/wiki/(.+)$', article_url), lines 135 and 310
HasWikiPath(url) == url = "https://en.wikipedia.org/wiki/Test_Page"

\* article_url.split('/wiki/')[-1].replace("_", " "), line 208
UrlTitle(url) ==
    IF url = "https://en.wikipedia.org/wiki/Test_Page" THEN "Test Page"
    ELSE "https://example.org/Test Page"

\* the text of h1#firstHeading, "None" when the document has none
TitleInputs == {"None", "Test"}

StopInputs == { {}, {"External links"} }

\* the rendered, trimmed texts of the li children of ol.references; the
\* empty sequence also stands for a document without that list
RefTexts == {"Source A.", "7. Source B."}
RefInputs == SeqsUpTo(RefTexts, MaxRefs)

\* lines 120-129
RECURSIVE extract_references(_)
extract_references(li_items) ==
    IF li_items = << >> THEN << >>
    ELSE LET references == extract_references(SubSeq(li_items, 1, Len(li_items) - 1))
         IN Append(references,
                   [number |-> Len(references) + 1, text |-> li_items[Len(li_items)]])

\* lines 259-262
ReferenceLines(refs) ==
    IF refs = << >> THEN << >>
    ELSE << Line("refs_heading", 0, 0, << >>, "## References", "", << >>) >>
           \o [i \in DOMAIN refs |->
                 Line("ref", refs[i].number, 0, << >>, refs[i].text, "", << >>)]

\* lines 267-269
RECURSIVE TableEntries(_, _)
TableEntries(tables, i) ==
    IF tables = << >> THEN << >>
    ELSE << Line("table_heading", i, 0, << >>, "### Table", "", << >>),
            Line("table", 0, 0, << >>, "", "", Head(tables)) >>
           \o TableEntries(Tail(tables), i + 1)

\* TableLines that numbers the tables from 0
TableLines_from0(tables) ==
    IF tables = << >> THEN << >>
    ELSE << Line("tables_heading", 0, 0, << >>, "## Extracted Tables", "", << >>) >>
           \o TableEntries(tables, 0)

\* lines 265-269
TableLines(tables) ==
    IF tables = << >> THEN << >>
    ELSE << Line("tables_heading", 0, 0, << >>, "## Extracted Tables", "", << >>) >>
           \o TableEntries(tables, 1)

\* line 203 raised: the run ends with the exception
HtmlFetchFailed ==
    /\ pc = "fetch" /\ h_pc = "raised"
    /\ pc' = "error"
    /\ err' = Raised
    /\ HttpIdle
    /\ UNCHANGED << inputVars, walkVars, pdfVars, buildVars, out_file >>

\* where the run goes on after the title line (line 214)
AfterTitle(include) == IF include THEN "pdf_url" ELSE "content"

\* HtmlFetched that writes the title line to the output file at once
HtmlFetched_streaming ==
    /\ pc = "fetch" /\ h_pc = "returned"
    /\ \E page_title_el \in TitleInputs :
         page_title' = IF page_title_el # "None" THEN page_title_el
                       ELSE UrlTitle(article_url)
    /\ markdown_lines' = << Line("title", 0, 0, << >>, page_title', article_url, << >>) >>
    /\ out_file' = [exists |-> TRUE, lines |-> markdown_lines']
    /\ pdf_tables_md' = << >>
    /\ pc' = AfterTitle(include_pdf_tables)
    /\ HttpIdle
    /\ UNCHANGED << inputVars, walkVars, pdfVars, ref_items, err >>

\* lines 203-214: the article is fetched and parsed, the title line is made
HtmlFetched ==
    /\ pc = "fetch" /\ h_pc = "returned"
    /\ \E page_title_el \in TitleInputs :
         page_title' = IF page_title_el # "None" THEN page_title_el
                       ELSE UrlTitle(article_url)
    /\ markdown_lines' = << Line("title", 0, 0, << >>, page_title', article_url, << >>) >>
    /\ pdf_tables_md' = << >>
    /\ pc' = AfterTitle(include_pdf_tables)
    /\ HttpIdle
    /\ UNCHANGED << inputVars, walkVars, pdfVars, ref_items, mainVars >>

\* lines 217, 147, 136-137, 225: build_pdf_url raises ValueError
BuildPdfUrlFail ==
    /\ pc = "pdf_url" /\ ~HasWikiPath(article_url)
    /\ pc' = "content"
    /\ UNCHANGED << inputVars, httpVars, walkVars, pdfVars, buildVars, mainVars >>

\* lines 217, 147-153: the PDF URL is built and http_get is called
BuildPdfUrl ==
    /\ pc = "pdf_url" /\ HasWikiPath(article_url)
    /\ HttpStart(DefaultMaxRetries)
    /\ pc' = "pdf_get"
    /\ UNCHANGED << inputVars, walkVars, pdfVars, buildVars, mainVars >>

\* lines 148, 225: the download raised
PdfFetchFailed ==
    /\ pc = "pdf_get" /\ h_pc = "raised"
    /\ pc' = "content"
    /\ HttpIdle
    /\ UNCHANGED << inputVars, walkVars, pdfVars, buildVars, mainVars >>

\* lines 154-157: the temporary file is created and filled
PdfFetched ==
    /\ pc = "pdf_get" /\ h_pc = "returned"
    /\ tmp_file' = "exists"
    /\ pc' = "pdf_open"
    /\ HttpIdle
    /\ UNCHANGED << inputVars, walkVars, pdf, page_i, page_tables, pdf_tables,
                    buildVars, mainVars >>

\* lines 220-222
RemoveOk ==
    /\ pc = "pdf_remove"
    /\ tmp_file' = "removed"
    /\ pc' = "content"
    /\ PdfIdle
    /\ UNCHANGED << inputVars, httpVars, walkVars, buildVars, mainVars >>

\* lines 221, 223-224: os.remove raises OSError
RemoveFail ==
    /\ pc = "pdf_remove"
    /\ pc' = "content"
    /\ PdfIdle
    /\ UNCHANGED << inputVars, httpVars, walkVars, tmp_file, buildVars, mainVars >>

\* lines 258-262
ExtractReferences ==
    /\ pc = "refs"
    /\ \E items \in RefInputs : ref_items' = items
    /\ markdown_lines' = markdown_lines \o ReferenceLines(extract_references(ref_items'))
    /\ pc' = "tables"
    /\ UNCHANGED << inputVars, httpVars, walkVars, pdfVars, page_title, pdf_tables_md,
                    mainVars >>

\* lines 265-271: the tables are appended, the document is returned
AppendTables ==
    /\ pc = "tables"
    /\ markdown_lines' = markdown_lines \o TableLines(pdf_tables_md)
    /\ pc' = "write"
    /\ UNCHANGED << inputVars, httpVars, walkVars, pdfVars, page_title, pdf_tables_md,
                    ref_items, mainVars >>

\* lines 309-314, 285-290
WriteMarkdown ==
    /\ pc = "write"
    /\ out_file' = [exists |-> TRUE, lines |-> markdown_lines]
    /\ pc' = "done"
    /\ UNCHANGED << inputVars, httpVars, walkVars, pdfVars, buildVars, err >>

\* ------------------------------------------------------------------------
\* Specifications

InitCommon ==
    /\ page_title = ""
    /\ markdown_lines = << >>
    /\ pdf_tables_md = << >>
    /\ content = << >>
    /\ idx = 0
    /\ ref_items = << >>
    /\ tmp_file = "none"
    /\ pdf = << >>
    /\ page_i = 0
    /\ page_tables = << >>
    /\ pdf_tables = << >>
    /\ out_file = [exists |-> FALSE, lines |-> << >>]
    /\ err = ""

HttpInit(max_retries) ==
    /\ h_pc = "loop"
    /\ h_max = max_retries
    /\ attempt = 0
    /\ last_exc = "None"
    /\ nreq = 0
    /\ outcome = 200
    /\ sleeps = << >>

\* a run of main, at the call of http_get at line 203
Init ==
    /\ article_url \in UrlInputs
    /\ stop_sections \in StopInputs
    /\ include_pdf_tables \in BOOLEAN
    /\ has_pdfplumber \in BOOLEAN
    /\ HttpInit(DefaultMaxRetries)
    /\ pc = "fetch"
    /\ InitCommon

Next ==
    \/ HttpGet
    \/ HtmlFetchFailed \/ HtmlFetched
    \/ BuildPdfUrlFail \/ BuildPdfUrl \/ PdfFetchFailed \/ PdfFetched
    \/ ExtractPdfTables(MainPdfs)
    \/ RemoveOk \/ RemoveFail
    \/ ContentMissing \/ FindContent(MainDocs)
    \/ Walk
    \/ ExtractReferences \/ AppendTables \/ WriteMarkdown

Spec == Init /\ [][Next]_vars

\* a call of http_get with any max_retries
InitHttp ==
    /\ article_url = "https://en.wikipedia.org/wiki/Test_Page"
    /\ stop_sections = {}
    /\ include_pdf_tables = FALSE
    /\ has_pdfplumber = TRUE
    /\ \E m \in 0..MaxRetriesArg : HttpInit(m)
    /\ pc = "fetch"
    /\ InitCommon

NextHttp == HttpGet

SpecHttp == InitHttp /\ [][NextHttp]_vars

FairHttp == SpecHttp /\ WF_vars(NextHttp)

\* the walk of build_markdown_from_article, from line 229
InitWalk ==
    /\ article_url = "https://en.wikipedia.org/wiki/Test_Page"
    /\ stop_sections \in StopInputs
    /\ include_pdf_tables = FALSE
    /\ has_pdfplumber = TRUE
    /\ h_pc = "idle" /\ h_max = 0 /\ attempt = 0 /\ last_exc = "None"
    /\ nreq = 0 /\ outcome = 200 /\ sleeps = << >>
    /\ pc = "content"
    /\ page_title = "Test"
    /\ markdown_lines = << Line("title", 0, 0, << >>, "Test", article_url, << >>) >>
    /\ pdf_tables_md = << >>
    /\ content = << >>
    /\ idx = 0
    /\ ref_items = << >>
    /\ tmp_file = "none"
    /\ pdf = << >>
    /\ page_i = 0
    /\ page_tables = << >>
    /\ pdf_tables = << >>
    /\ out_file = [exists |-> FALSE, lines |-> << >>]
    /\ err = ""

NextWalk == FindContent(WalkDocs) \/ Walk

SpecWalk == InitWalk /\ [][NextWalk]_vars

\* a call of extract_pdf_tables, line 219
InitPdf ==
    /\ article_url = "https://en.wikipedia.org/wiki/Test_Page"
    /\ stop_sections = {}
    /\ include_pdf_tables = TRUE
    /\ has_pdfplumber \in BOOLEAN
    /\ h_pc = "idle" /\ h_max = 0 /\ attempt = 0 /\ last_exc = "None"
    /\ nreq = 0 /\ outcome = 200 /\ sleeps = << >>
    /\ pc = "pdf_open"
    /\ page_title = "Test"
    /\ markdown_lines = << Line("title", 0, 0, << >>, "Test", article_url, << >>) >>
    /\ pdf_tables_md = << >>
    /\ content = << >>
    /\ idx = 0
    /\ ref_items = << >>
    /\ tmp_file = "exists"
    /\ pdf = << >>
    /\ page_i = 0
    /\ page_tables = << >>
    /\ pdf_tables = << >>
    /\ out_file = [exists |-> FALSE, lines |-> << >>]
    /\ err = ""

NextPdf == ExtractPdfTables(MergePdfs)

SpecPdf == InitPdf /\ [][NextPdf]_vars

\* ------------------------------------------------------------------------
\* Properties

Range(f) == { f[i] : i \in DOMAIN f }

IsBody(l) == l.type \in {"heading", "block"}

BodyLines == SelectSeq(markdown_lines, IsBody)

WalkOver == pc \in {"refs", "tables", "write", "done"}

\* the stop set as the claim words it
ClaimStopSet ==
    {"references", "notes", "bibliography"} \cup { Lower(s) : s \in stop_sections }

ClaimIsStop(i) ==
    content[i].tag \in HeadingTags /\ Lower(content[i].txt) \in ClaimStopSet

\* the first stop heading in document order, Len(content) + 1 when none
RECURSIVE FirstStopFrom(_)
FirstStopFrom(i) ==
    IF i > Len(content) THEN Len(content) + 1
    ELSE IF ClaimIsStop(i) THEN i ELSE FirstStopFrom(i + 1)

FirstStop == FirstStopFrom(1)

Rendered(e) == Strip(clean_text(content, e, FALSE))

Emits(e) == content[e].tag \in (WalkedTags \ {"table"}) /\ Rendered(e) # << >>

\* C1: stop-section truncation.  No body block comes from an element at or
\* after the first stop heading, and once the walk is over every heading,
\* paragraph, list and definition list before it that renders to a
\* non-empty text has its block in markdown_lines.
C1_StopTruncation ==
    /\ \A k \in DOMAIN BodyLines : BodyLines[k].src < FirstStop
    /\ WalkOver =>
         \A e \in 1..(FirstStop - 1) :
            Emits(e) => \E k \in DOMAIN BodyLines :
                           BodyLines[k].src = e /\ BodyLines[k].text = Rendered(e)

C1_Witness ==
    /\ WalkOver
    /\ FirstStop < Len(content)
    /\ Emits(FirstStop + 1)
    /\ BodyLines # << >>

InTable(e) == \E a \in AncestorsOrSelf(content, e) : a # 0 /\ content[a].tag = "table"

\* C2: no body block contains text of the subtree of a table element.
C2_TablesSkipped ==
    \A k \in DOMAIN BodyLines :
       \A tok \in Range(BodyLines[k].text) : tok > 0 => ~InTable(tok)

\* C9: the text of an element is contained in at most one body block.
C9_EmittedOnce ==
    \A e \in DOMAIN content :
       Cardinality({ k \in DOMAIN BodyLines : e \in Range(BodyLines[k].text) }) <= 1

\* C4 -------------------------------------------------------------------
RECURSIVE ConvertedOf(_)
ConvertedOf(tables) ==
    IF tables = << >> THEN << >>
    ELSE LET rest == ConvertedOf(Tail(tables))
         IN IF ConvertRaises(Head(tables)) THEN rest
            ELSE IF convert_pdf_table_to_markdown(Head(tables)) = << >> THEN rest
            ELSE << convert_pdf_table_to_markdown(Head(tables)) >> \o rest

RECURSIVE MergedOf(_)
MergedOf(pages) ==
    IF pages = << >> THEN << >>
    ELSE (IF Head(pages).fails THEN << >> ELSE ConvertedOf(Head(pages).tables))
           \o MergedOf(Tail(pages))

\* C4: when extract_pdf_tables returns, its result holds, in order, the
\* Markdown of every table that converts to a non-empty text, of every page
\* whose extraction did not fail; only failing pages and tables are missing.
C4_BatchNotAborted ==
    (pc = "pdf_remove" /\ has_pdfplumber) => pdf_tables_md = MergedOf(pdf)

\* C5 -------------------------------------------------------------------
Transient == RETRY_STATUS \cup {ConnError}

\* C5: a request that is not the first of the call, and a backoff sleep,
\* only follow an attempt that ended with a retry status or a connection
\* error.
C5_RetryOnlyTransient ==
    [][ /\ (nreq' = nreq + 1 /\ nreq >= 1) => outcome \in Transient
        /\ (Len(sleeps') = Len(sleeps) + 1) => outcome' \in Transient ]_vars

\* C6 -------------------------------------------------------------------
IsGood(o) == o # ConnError /\ o \notin RETRY_STATUS /\ ~(o >= 400 /\ o < 600)

\* C6: http_get issues at most max_retries + 1 requests; it returns only a
\* response whose status is neither a retry status nor an HTTP error, and
\* returns it as soon as it is received; it raises only after
\* max_retries + 1 requests; and every call ends.
C6_BoundedTerminal ==
    /\ [](/\ nreq <= h_max + 1
          /\ h_pc = "returned" => IsGood(outcome)
          /\ h_pc = "raised" => nreq = h_max + 1)
    /\ [][(nreq' = nreq + 1 /\ IsGood(outcome')) => h_pc' = "returned"]_vars
    /\ <>(h_pc \in {"returned", "raised"})

C6_Witness == h_pc = "raised" /\ h_max = MaxRetriesArg /\ nreq = h_max + 1

\* C7 -------------------------------------------------------------------
\* C7: a run that ended with an error has written no output file, and an
\* output file only exists once the run is done and holds the whole
\* document.
C7_NoPartialFile ==
    /\ pc = "error" => ~out_file.exists
    /\ out_file.exists => (pc = "done" /\ out_file.lines = markdown_lines)
    /\ pc # "done" => ~out_file.exists

C7_Witness == pc = "error" /\ err = "RuntimeError" /\ markdown_lines # << >>

\* C10 ------------------------------------------------------------------
\* C10: once build_markdown_from_article has returned or raised, no
\* temporary PDF file is left.
C10_TempFileRemoved ==
    pc \in {"write", "done", "error"} => tmp_file # "exists"

\* C3 -------------------------------------------------------------------
NotTable(l) == l.type \notin {"tables_heading", "table_heading", "table"}

\* the body blocks of the walk over the find_all result from position i on
RECURSIVE BodyFrom(_)
BodyFrom(i) ==
    IF i > Len(Elements) THEN << >>
    ELSE LET e == Elements[i]
         IN IF ClaimIsStop(e) THEN << >>
            ELSE IF content[e].tag \in HeadingTags
                 THEN HeadingLines(content, e) \o BodyFrom(i + 1)
            ELSE IF content[e].tag = "table" THEN BodyFrom(i + 1)
            ELSE BlockLines(content, e) \o BodyFrom(i + 1)

\* title, body blocks and References section of the article, which do not
\* depend on include_pdf_tables
HtmlOnlyDocument ==
    << Line("title", 0, 0, << >>, page_title, article_url, << >>) >>
      \o BodyFrom(1)
      \o ReferenceLines(extract_references(ref_items))

InPdfPath == pc \in {"pdf_url", "pdf_get", "pdf_open", "pdf_page", "pdf_table", "pdf_remove"}

\* C3: no step of the PDF path ends the run, and the title, body blocks and
\* References section of the returned document are those of the article
\* alone, whether the PDF path was disabled, succeeded or failed.
C3_PdfFailureDegrades ==
    /\ [][InPdfPath => (pc' # "error" /\ markdown_lines' = markdown_lines)]_vars
    /\ [](pc \in {"write", "done"} =>
            SelectSeq(markdown_lines, NotTable) = HtmlOnlyDocument)

C3_Witness ==
    /\ pc = "write"
    /\ include_pdf_tables /\ HasWikiPath(article_url)
    /\ tmp_file = "none"
    /\ BodyLines # << >>
    /\ ref_items # << >>

\* C8 -------------------------------------------------------------------
RefSectionLen == IF ref_items = << >> THEN 0 ELSE Len(ref_items) + 1

TableSectionLen == IF pdf_tables_md = << >> THEN 0 ELSE 2 * Len(pdf_tables_md) + 1

\* C8: the returned document is the title line, then the body blocks in
\* document order, then "## References" and the lines \[n] text, n = 1..N
\* in extraction order, when N >= 1 references were extracted and nothing
\* otherwise, then "## Extracted Tables" and "### Table i" with its table,
\* i = 1..M in recovery order, when M >= 1 tables were recovered and
\* nothing otherwise; without PDF extraction there is no table section.
C8_OutputStructure ==
    pc \in {"write", "done"} =>
      LET L == markdown_lines
          nb == Len(BodyLines)
          N == Len(ref_items)
          M == Len(pdf_tables_md)
          r0 == 1 + nb
          t0 == r0 + RefSectionLen
      IN /\ Len(L) = t0 + TableSectionLen
         /\ L[1].type = "title" /\ L[1].s = page_title /\ L[1].url = article_url
         /\ \A k \in 2..r0 : IsBody(L[k])
         /\ \A j, k \in 2..r0 : j < k => L[j].src < L[k].src
         /\ N >= 1 => /\ L[r0 + 1].type = "refs_heading"
                      /\ \A n \in 1..N : /\ L[r0 + 1 + n].type = "ref"
                                         /\ L[r0 + 1 + n].n = n
                                         /\ L[r0 + 1 + n].s = ref_items[n]
         /\ M >= 1 => /\ L[t0 + 1].type = "tables_heading"
                      /\ \A i \in 1..M : /\ L[t0 + 2 * i].type = "table_heading"
                                         /\ L[t0 + 2 * i].n = i
                                         /\ L[t0 + 2 * i + 1].type = "table"
                                         /\ L[t0 + 2 * i + 1].md = pdf_tables_md[i]
         /\ ~include_pdf_tables => M = 0

C8_Witness ==
    /\ pc = "done"
    /\ Len(BodyLines) = 2
    /\ Len(ref_items) = 2 /\ ref_items[1] # ref_items[2]
    /\ Len(pdf_tables_md) = 2 /\ pdf_tables_md[1] # pdf_tables_md[2]

====
